---------------------------- MODULE Spec2Model ----------------------------
(***************************************************************************)
(* A model of the CiTrace player (src/src/main.cpp): the address           *)
(* translator, the initial-state command list builder and the playback     *)
(* loop.                                                                   *)
(*                                                                         *)
(* 32-bit data words (file contents, command list entries) are bit         *)
(* vectors [0..31 -> {0,1}], bit 0 the least significant, so that shifts,  *)
(* masks and ors are exact uint32_t operations.  Addresses, sizes and      *)
(* counters are naturals.                                                  *)
(***************************************************************************)
EXTENDS Integers, Sequences, FiniteSets, TLC

-----------------------------------------------------------------------------
(* uint32_t arithmetic on bit vectors *)

BitIdx == 0..31

Pow2(n) == 2^n

\* the word whose value is n, for 0 <= n < 2^31
ToWord(n) == [i \in BitIdx |-> IF i = 31 THEN 0 ELSE (n \div Pow2(i)) % 2]

ZeroWord == [i \in BitIdx |-> 0]

\* w << k
Shl(w, k) == [i \in BitIdx |-> IF i >= k THEN w[i - k] ELSE 0]

\* w >> k
Shr(w, k) == [i \in BitIdx |-> IF i + k <= 31 THEN w[i + k] ELSE 0]

\* a & b
BitAnd(a, b) == [i \in BitIdx |-> a[i] * b[i]]

\* a | b
BitOr(a, b) == [i \in BitIdx |-> IF a[i] + b[i] > 0 THEN 1 ELSE 0]

\* the word made of four bytes, b3 the most significant
Bytes(b3, b2, b1, b0) ==
    BitOr(BitOr(Shl(ToWord(b3), 24), Shl(ToWord(b2), 16)),
          BitOr(Shl(ToWord(b1), 8), ToWord(b0)))

Mask8 == ToWord(255)
Mask16 == ToWord(65535)
Mask24 == ToWord(16777215)

Min(a, b) == IF a < b THEN a ELSE b

-----------------------------------------------------------------------------
(* Physical memory regions as seen from the ARM11, and the virtual regions *)

IO_AREA_PADDR == 269484032          \* 0x10100000
IO_AREA_SIZE == 16777216            \* 0x01000000
IO_AREA_PADDR_END == IO_AREA_PADDR + IO_AREA_SIZE
MPCORE_RAM_PADDR == 400556032       \* 0x17E00000
MPCORE_RAM_SIZE == 8192             \* 0x00002000
MPCORE_RAM_PADDR_END == MPCORE_RAM_PADDR + MPCORE_RAM_SIZE
VRAM_PADDR == 402653184             \* 0x18000000
VRAM_SIZE == 6291456                \* 0x00600000
VRAM_PADDR_END == VRAM_PADDR + VRAM_SIZE
DSP_RAM_PADDR == 535822336          \* 0x1FF00000
DSP_RAM_SIZE == 524288              \* 0x00080000
DSP_RAM_PADDR_END == DSP_RAM_PADDR + DSP_RAM_SIZE
AXI_WRAM_PADDR == 536346624         \* 0x1FF80000
AXI_WRAM_SIZE == 524288             \* 0x00080000
AXI_WRAM_PADDR_END == AXI_WRAM_PADDR + AXI_WRAM_SIZE
FCRAM_PADDR == 536870912            \* 0x20000000
FCRAM_SIZE == 134217728             \* 0x08000000
FCRAM_PADDR_END == FCRAM_PADDR + FCRAM_SIZE

IO_AREA_VADDR == 515899392          \* 0x1EC00000
VRAM_VADDR == 520093696             \* 0x1F000000
DSP_RAM_VADDR == 535822336          \* 0x1FF00000

FCRAMStartVAddr == 335544320        \* 0x14000000

\* the outcome of a call of PhysicalToVirtualAddress: either it returns a
\* value, or it prints "Unknown physical address", calls NetworkExit and
\* std::terminate and so never returns to its caller
Returned(v) == [returns |-> TRUE, value |-> v, diagnostic |-> FALSE]
Terminated == [returns |-> FALSE, value |-> 0, diagnostic |-> TRUE]

\* PhysicalToVirtualAddress with the end of VRAM taken as part of VRAM
PhysicalToVirtualAddress_Inclusive(physical_address) ==
    IF physical_address = 0 THEN Returned(0)
    ELSE IF physical_address >= VRAM_PADDR /\ physical_address <= VRAM_PADDR_END
         THEN Returned(physical_address - VRAM_PADDR + VRAM_VADDR)
    ELSE IF physical_address >= FCRAM_PADDR /\ physical_address < FCRAM_PADDR_END
         THEN Returned(physical_address - FCRAM_PADDR + FCRAMStartVAddr)
    ELSE IF physical_address >= DSP_RAM_PADDR /\ physical_address < DSP_RAM_PADDR_END
         THEN Returned(physical_address - DSP_RAM_PADDR + DSP_RAM_VADDR)
    ELSE IF physical_address >= IO_AREA_PADDR /\ physical_address < IO_AREA_PADDR_END
         THEN Returned(physical_address - IO_AREA_PADDR + IO_AREA_VADDR)
    ELSE Terminated

\* PhysicalToVirtualAddress with the VRAM branch returning the bare offset
PhysicalToVirtualAddress_NoBase(physical_address) ==
    IF physical_address = 0 THEN Returned(0)
    ELSE IF physical_address >= VRAM_PADDR /\ physical_address < VRAM_PADDR_END
         THEN Returned(physical_address - VRAM_PADDR)
    ELSE IF physical_address >= FCRAM_PADDR /\ physical_address < FCRAM_PADDR_END
         THEN Returned(physical_address - FCRAM_PADDR + FCRAMStartVAddr)
    ELSE IF physical_address >= DSP_RAM_PADDR /\ physical_address < DSP_RAM_PADDR_END
         THEN Returned(physical_address - DSP_RAM_PADDR + DSP_RAM_VADDR)
    ELSE IF physical_address >= IO_AREA_PADDR /\ physical_address < IO_AREA_PADDR_END
         THEN Returned(physical_address - IO_AREA_PADDR + IO_AREA_VADDR)
    ELSE Terminated

PhysicalToVirtualAddress(physical_address) ==
    IF physical_address = 0 THEN Returned(0)
    ELSE IF physical_address >= VRAM_PADDR /\ physical_address < VRAM_PADDR_END
         THEN Returned(physical_address - VRAM_PADDR + VRAM_VADDR)
    ELSE IF physical_address >= FCRAM_PADDR /\ physical_address < FCRAM_PADDR_END
         THEN Returned(physical_address - FCRAM_PADDR + FCRAMStartVAddr)
    ELSE IF physical_address >= DSP_RAM_PADDR /\ physical_address < DSP_RAM_PADDR_END
         THEN Returned(physical_address - DSP_RAM_PADDR + DSP_RAM_VADDR)
    ELSE IF physical_address >= IO_AREA_PADDR /\ physical_address < IO_AREA_PADDR_END
         THEN Returned(physical_address - IO_AREA_PADDR + IO_AREA_VADDR)
    ELSE Terminated

-----------------------------------------------------------------------------
(* The 4-to-3 packing of float24 values, main.cpp lines 347-349 and 321-327. *)
(* values is the array uint32_t values[4], a function on 0..3.               *)

PackWord0(values) ==
    BitOr(Shl(values[3], 8), BitAnd(Shr(values[2], 16), Mask8))

\* PackWord1 keeping 8 bits of values[1] where the source keeps 16
PackWord1_Narrow(values) ==
    BitOr(Shl(BitAnd(values[2], Mask16), 16), BitAnd(Shr(values[1], 8), Mask8))

PackWord1(values) ==
    BitOr(Shl(BitAnd(values[2], Mask16), 16), BitAnd(Shr(values[1], 8), Mask16))

PackWord2(values) ==
    BitOr(Shl(BitAnd(values[1], Mask8), 24), BitAnd(values[0], Mask24))

-----------------------------------------------------------------------------
(* pica_register_state_mask: the stateful byte lanes of each pica register *)

MaskTableSize == 768                \* 0x300

StateMask1 == {64, 128, 142, 150, 158}

StateMask7 == {65, 67, 77, 78}

StateMaskF ==
    (80..86) \cup {104, 130, 131, 133, 146, 147, 149, 154, 155, 157}
    \cup (192..196) \cup (200..204) \cup (208..212) \cup (216..220)
    \cup (240..244) \cup (248..252) \cup {224, 253}
    \cup (256..260) \cup {262, 278, 279, 284, 285, 286}
    \cup (512..514) \cup (515..550) \cup {551, 552, 606}
    \cup (688..692) \cup (698..700) \cup {704, 715, 725}

pica_register_state_mask(regid) ==
    IF regid \in StateMask1 THEN 1
    ELSE IF regid \in StateMask7 THEN 7
    ELSE IF regid \in StateMaskF THEN 15
    ELSE 0

-----------------------------------------------------------------------------
(* Model bounds *)

MaxAttrSlots == 2
MaxBlobWords == 1
MaxUniformGroups == 3
MaxPadRounds == 3
MaxPasses == 2
MaxStreamLen == 2
MaxLoadChunks == 3
AddrSpread == 3
NumSamples == 3

-----------------------------------------------------------------------------
(* State *)

VARIABLES
    pc,             \* position of main()
    file,           \* the trace file sdmc:/citrace.ctf (never written)
    input,          \* the std::ifstream: read position and failbit
    stream,         \* std::vector<CTStreamElement> stream
    command_list,   \* std::vector<uint32_t> command_list
    regs_base,      \* command_list.size() when the register replay began
    pad_rounds,     \* iterations of the padding loop taken so far
    pass,           \* iterations of the playback loop begun so far
    idx,            \* index in stream of the current element (from 1)
    remaining,      \* DMA loop: bytes still to transfer
    addr,           \* DMA loop: physical address of the current chunk
    count,          \* polling loop: count
    events,         \* calls of the external services, in call order
    exit_code,      \* -1 while running, else main()'s return value
    short_read,     \* which read before playback first fell short, if any
    call_base,      \* command_list.size() when the latest SubmitInternalMemory began
    probe,          \* the argument of a stand-alone translation or packing
    result          \* and what it produced

vars == <<pc, file, input, stream, command_list, regs_base, pad_rounds, pass,
          idx, remaining, addr, count, events, exit_code, short_read, call_base, probe, result>>

header == file.header

\* The file holds data_len bytes after its header, a whole number of words;
\* offsets are byte offsets into them, word aligned.  Word i has a content
\* that differs from word to word and whose two upper byte lanes are not 0.
DataWord(i) == Bytes(128 + (i % 128), 64 + (i % 64), (i \div 256) % 256, i % 256)

\* what an uninitialized uint32_t may hold
Uninit == {ZeroWord, Bytes(222, 173, 190, 239)}

UninitValues == {[j \in 0..3 |-> w] : w \in Uninit}

-----------------------------------------------------------------------------
(* std::ifstream: seekg and read do nothing once failbit is set; a read    *)
(* that reaches the end of the file stores what there is and sets failbit. *)

AvailBytes(inp, n) ==
    IF inp.fail \/ inp.pos >= file.data_len THEN 0
    ELSE Min(n, file.data_len - inp.pos)

\* whole words a read of n words obtains
Avail(inp, n) == AvailBytes(inp, 4 * n) \div 4

seekg(inp, offset) == IF inp.fail THEN inp ELSE [inp EXCEPT !.pos = offset]

\* the stream after input.read of n bytes
AfterReadBytes(inp, n) ==
    [pos |-> inp.pos + AvailBytes(inp, n), fail |-> inp.fail \/ AvailBytes(inp, n) < n]

\* the stream after input.read of n words
AfterRead(inp, n) == AfterReadBytes(inp, 4 * n)

\* input.read((char*)values, sizeof(values)) over what values held before
ReadValues(inp, before) ==
    [j \in 0..3 |-> IF j < Avail(inp, 4) THEN DataWord(inp.pos \div 4 + j)
                    ELSE before[j]]

\* input.read of one word over what the destination held before
ReadWord(inp, before) ==
    IF Avail(inp, 1) = 1 THEN DataWord(inp.pos \div 4) ELSE before

Event(op, a, n) == [op |-> op, addr |-> a, size |-> n, pass |-> pass, elem |-> idx]

Emit(op, a, n) == events' = Append(events, Event(op, a, n))

-----------------------------------------------------------------------------
(* Open input file; read and check header (main.cpp lines 262-287) *)

\* a diagnostic, NetworkExit() and return 1
Fail(message) ==
    /\ events' = events \o <<Event(message, 0, 0), Event("NetworkExit", 0, 0)>>
    /\ pc' = "done"
    /\ exit_code' = 1

OpenInput ==
    /\ pc = "open"
    /\ IF file.exists
       THEN /\ pc' = "read_header"
            /\ UNCHANGED <<exit_code, events>>
       ELSE Fail("print_open_failed")
    /\ UNCHANGED <<file, input, stream, command_list, regs_base, pad_rounds, pass,
                   idx, remaining, addr, count, short_read, call_base, probe, result>>

ReadHeader ==
    /\ pc = "read_header"
    /\ IF file.has_header
       THEN /\ pc' = "check_magic"
            /\ UNCHANGED <<exit_code, events>>
       ELSE Fail("print_header_failed")
    /\ UNCHANGED <<file, input, stream, command_list, regs_base, pad_rounds, pass,
                   idx, remaining, addr, count, short_read, call_base, probe, result>>

CheckMagic ==
    /\ pc = "check_magic"
    /\ IF file.magic_ok
       THEN /\ pc' = "check_version"
            /\ UNCHANGED <<exit_code, events>>
       ELSE Fail("print_invalid_magic")
    /\ UNCHANGED <<file, input, stream, command_list, regs_base, pad_rounds, pass,
                   idx, remaining, addr, count, short_read, call_base, probe, result>>

\* CheckVersion treating another version the way the magic word is treated
CheckVersion_Fatal ==
    /\ pc = "check_version"
    /\ IF file.version_ok
       THEN /\ pc' = "read_stream"
            /\ UNCHANGED <<exit_code, events>>
       ELSE Fail("print_unsupported_version")
    /\ UNCHANGED <<file, input, stream, command_list, regs_base, pad_rounds, pass,
                   idx, remaining, addr, count, short_read, call_base, probe, result>>

CheckVersion ==
    /\ pc = "check_version"
    /\ pc' = "read_stream"
    /\ IF file.version_ok
       THEN UNCHANGED events
       ELSE Emit("print_unsupported_version", 0, 0)
    /\ UNCHANGED <<file, input, stream, command_list, regs_base, pad_rounds, pass,
                   idx, remaining, addr, count, exit_code, short_read, call_base, probe, result>>

-----------------------------------------------------------------------------
(* Read stream into local memory (lines 289-295).  The vector is value-     *)
(* initialized, so a record the file does not hold stays all zero.          *)

FrameMarker == 225
MemoryLoad == 226
RegisterWrite == 227

ZeroElement ==
    [type |-> 0, file_offset |-> 0, physical_address |-> 0, size |-> 0,
     value |-> [hi |-> 0, lo |-> 0]]

ReadStream ==
    /\ pc = "read_stream"
    /\ stream' = [i \in 1..header.stream_size |->
                    IF i <= Len(file.stream_records)
                    THEN file.stream_records[i] ELSE ZeroElement]
    /\ input' = [pos |-> 0,
                 fail |-> Len(file.stream_records) < header.stream_size]
    /\ Emit("print_read_ok", 0, 0)
    /\ pc' = "default_attributes"
    /\ short_read' = IF short_read = "none" /\ input'.fail THEN "stream" ELSE short_read
    /\ UNCHANGED <<file, command_list, regs_base, pad_rounds, pass,
                   idx, remaining, addr, count, exit_code, call_base, probe, result>>

-----------------------------------------------------------------------------
(* Initial-state command list (lines 297-381) *)

iso == header.initial_state_offsets

\* n | 0xF0000 | (len << 20), the command header of register n
CommandHeader(n, len) ==
    BitOr(BitOr(ToWord(n), ToWord(983040)), Shl(ToWord(len), 20))

\* lines 341-349: the five words of default attribute slot i
AttributeWords(i, values) ==
    <<ToWord(i), CommandHeader(562, 3),
      PackWord0(values), PackWord1(values), PackWord2(values)>>

\* lines 340-350.  Every iteration seeks to the same offset and reads into
\* the array values of that iteration, which a failed read leaves as it was.
RECURSIVE AttributeLoop(_, _, _, _)
AttributeLoop(list, inp, values, i) ==
    IF i >= iso.default_attributes_size \div 4 THEN [list |-> list, input |-> inp]
    ELSE LET at == seekg(inp, iso.default_attributes)
             read == ReadValues(at, values)
         IN AttributeLoop(list \o AttributeWords(i, read), AfterRead(at, 4), read, i + 1)

DefaultAttributes ==
    /\ pc = "default_attributes"
    /\ \E stale \in (IF Avail(seekg(input, iso.default_attributes), 4) < 4
                         /\ iso.default_attributes_size \div 4 > 0
                     THEN UninitValues ELSE {[j \in 0..3 |-> ZeroWord]}) :
         LET done == AttributeLoop(command_list, input, stale, 0)
         IN /\ command_list' = done.list
            /\ input' = done.input
    /\ pc' = "gs_program_binary"
    /\ short_read' = IF short_read = "none" /\ input'.fail THEN "state" ELSE short_read
    /\ UNCHANGED <<file, stream, regs_base, pad_rounds, pass, idx, remaining,
                   addr, count, events, exit_code, call_base, probe, result>>

\* lines 317-328: the float uniform loop, from index on
RECURSIVE FloatLoop(_, _, _, _, _, _, _)
FloatLoop(list, inp, values, index, num_words, pica_register_id, command_written) ==
    IF index >= num_words \div 4 THEN [list |-> list, input |-> inp]
    ELSE LET read == ReadValues(inp, values)
             head == IF command_written THEN <<>>
                     ELSE <<CommandHeader(pica_register_id + 1,
                                          (num_words \div 4) * 3 - 1)>>
         IN FloatLoop(list \o <<PackWord0(read)>> \o head
                           \o <<PackWord1(read), PackWord2(read)>>,
                      AfterRead(inp, 4), read, index + 1, num_words,
                      pica_register_id, TRUE)

\* lines 334-337: the remaining raw words, from index on
RECURSIVE RawLoop(_, _, _, _)
RawLoop(list, inp, index, num_words) ==
    IF index >= num_words THEN [list |-> list, input |-> inp]
    ELSE RawLoop(Append(list, ReadWord(inp, ZeroWord)), AfterRead(inp, 1),
                 index + 1, num_words)

\* SubmitInternalMemory with num_words where the payload length is num_words - 1
SubmitInternalMemory_Length(list, inp, file_offset, num_words, pica_register_id, is_float_uniform, stale) ==
    IF 0 = num_words THEN [list |-> list, input |-> inp]
    ELSE LET first == list \o <<ZeroWord, CommandHeader(pica_register_id, 0)>>
             at == seekg(inp, file_offset)
         IN IF is_float_uniform
            THEN FloatLoop(first, at, stale, 1, num_words, pica_register_id, FALSE)
            ELSE RawLoop(first \o <<ReadWord(at, ZeroWord),
                                    CommandHeader(pica_register_id + 1, num_words)>>,
                         AfterRead(at, 1), 1, num_words)

\* lines 301-339; stale is what the array values holds before its first read
SubmitInternalMemory(list, inp, file_offset, num_words, pica_register_id, is_float_uniform, stale) ==
    IF 0 = num_words THEN [list |-> list, input |-> inp]
    ELSE LET first == list \o <<ZeroWord, CommandHeader(pica_register_id, 0)>>
             at == seekg(inp, file_offset)
         IN IF is_float_uniform
            THEN FloatLoop(first, at, stale, 1, num_words, pica_register_id, FALSE)
            ELSE RawLoop(first \o <<ReadWord(at, ZeroWord),
                                    CommandHeader(pica_register_id + 1, num_words - 1)>>,
                         AfterRead(at, 1), 1, num_words)

\* lines 351-356: the six calls, in order
SubmitCalls ==
    << [at |-> "gs_program_binary", offset |-> iso.gs_program_binary,
        size |-> iso.gs_program_binary_size, reg |-> 667, float |-> FALSE],
       [at |-> "gs_swizzle_data", offset |-> iso.gs_swizzle_data,
        size |-> iso.gs_swizzle_data_size, reg |-> 677, float |-> FALSE],
       [at |-> "gs_float_uniforms", offset |-> iso.gs_float_uniforms,
        size |-> iso.gs_float_uniforms_size, reg |-> 656, float |-> TRUE],
       [at |-> "vs_program_binary", offset |-> iso.vs_program_binary,
        size |-> iso.vs_program_binary_size, reg |-> 715, float |-> FALSE],
       [at |-> "vs_swizzle_data", offset |-> iso.vs_swizzle_data,
        size |-> iso.vs_swizzle_data_size, reg |-> 725, float |-> FALSE],
       [at |-> "vs_float_uniforms", offset |-> iso.vs_float_uniforms,
        size |-> iso.vs_float_uniforms_size, reg |-> 704, float |-> TRUE],
       [at |-> "pica_registers"] >>

\* whether some read of the float loop of call c would fall short
FloatReadsFallShort(c) ==
    /\ c.float
    /\ c.size \div 4 >= 2
    /\ \/ input.fail
       \/ c.offset + 16 * (c.size \div 4 - 1) > file.data_len

SubmitCall(k) ==
    /\ pc = SubmitCalls[k].at
    /\ LET c == SubmitCalls[k]
       IN \E stale \in (IF FloatReadsFallShort(c) THEN UninitValues
                        ELSE {[j \in 0..3 |-> ZeroWord]}) :
            LET done == SubmitInternalMemory(command_list, input, c.offset, c.size,
                                             c.reg, c.float, stale)
            IN /\ command_list' = done.list
               /\ input' = done.input
    /\ pc' = SubmitCalls[k + 1].at
    /\ short_read' = IF short_read = "none" /\ input'.fail THEN "state" ELSE short_read
    /\ call_base' = Len(command_list)
    /\ UNCHANGED <<file, stream, regs_base, pad_rounds, pass, idx, remaining,
                   addr, count, events, exit_code, probe, result>>

\* lines 364-370: the body of the register replay loop for regid.  st holds
\* the list, the stream and what the variable value holds, which a failed
\* read leaves as it was.
\* ReplayStep without the continue of line 367
ReplayStep_NoSkip(st, regid) ==
    LET read == ReadWord(st.input, st.value)
    IN [list |-> st.list \o <<read,
                              BitOr(ToWord(regid),
                                    Shl(ToWord(pica_register_state_mask(regid)), 16))>>,
        input |-> AfterRead(st.input, 1),
        value |-> read]

ReplayStep(st, regid) ==
    LET read == ReadWord(st.input, st.value)
    IN [list |-> IF pica_register_state_mask(regid) = 0 THEN st.list
                 ELSE st.list \o <<read,
                                   BitOr(ToWord(regid),
                                         Shl(ToWord(pica_register_state_mask(regid)), 16))>>,
        input |-> AfterRead(st.input, 1),
        value |-> read]

\* line 363: the iterations for regid = lo, lo + 1, ..., hi - 1, in this order.
\* (The range is halved, and the first half evaluated before the second is
\* entered, only to keep TLC's evaluation shallow.)
RECURSIVE ReplayLoop(_, _, _)
ReplayLoop(st, lo, hi) ==
    IF lo >= hi THEN st
    ELSE IF hi = lo + 1 THEN ReplayStep(st, lo)
    ELSE LET first == ReplayLoop(st, lo, (lo + hi) \div 2)
         IN IF first.input.pos >= 0 THEN ReplayLoop(first, (lo + hi) \div 2, hi)
            ELSE first

\* line 362
NumPicaRegisters == Min(MaskTableSize, iso.pica_registers_size)

\* lines 361-371
PicaRegisters ==
    /\ pc = "pica_registers"
    /\ LET at == seekg(input, iso.pica_registers)
       IN \E stale \in (IF Avail(at, NumPicaRegisters) < NumPicaRegisters
                        THEN Uninit ELSE {ZeroWord}) :
            LET done == ReplayLoop([list |-> command_list, input |-> at, value |-> stale],
                                   0, NumPicaRegisters)
            IN /\ command_list' = done.list
               /\ input' = done.input
    /\ regs_base' = Len(command_list)
    /\ pc' = "pad"
    /\ short_read' = IF short_read = "none" /\ input'.fail THEN "state" ELSE short_read
    /\ UNCHANGED <<file, stream, pad_rounds, pass, idx, remaining,
                   addr, count, events, exit_code, call_base, probe, result>>

\* PadNeeded asking for an even length only
PadNeeded_Even(list) == Len(list) % 2 # 0

\* line 374: the padding loop's condition
PadNeeded(list) == Len(list) % 4 # 0

\* lines 377-378: repeat previous command
PadOnce(list) ==
    LET one == Append(list, list[Len(list) - 1])
    IN Append(one, one[Len(one) - 1])

Pad ==
    /\ pc = "pad"
    /\ PadNeeded(command_list)
    /\ pad_rounds < MaxPadRounds
    /\ command_list' = PadOnce(command_list)
    /\ pad_rounds' = pad_rounds + 1
    /\ UNCHANGED <<pc, file, input, stream, regs_base, pass, idx, remaining,
                   addr, count, events, exit_code, short_read, call_base, probe, result>>

\* lines 381-389: flush the list, gfxInitDefault, start playback
FlushCommandList ==
    /\ pc = "pad"
    /\ ~PadNeeded(command_list)
    /\ Emit("GSPGPU_FlushDataCache", 0, Len(command_list) * 4)
    /\ pc' = "main_loop"
    /\ UNCHANGED <<file, input, stream, command_list, regs_base, pad_rounds, pass,
                   idx, remaining, addr, count, exit_code, short_read, call_base, probe, result>>

-----------------------------------------------------------------------------
(* Playback (lines 391-564) *)

\* the register offset GSPGPU_ReadHWRegs / GSPGPU_WriteHWRegs is given for a
\* physical address: physical_address - 0x10100000 + 0x1EC00000 - 0x1EB00000
HWRegOffset(physical_address) == physical_address - 269484032 + 515899392 - 514850816

CommandListSizeReg == 272636128      \* 0x104018E0
CommandListAddrReg == 272636136      \* 0x104018E8
CommandListTriggerReg == 272636144   \* 0x104018F0
MemoryFillControl1Reg == 272629788   \* 0x1040001C
MemoryFillControl2Reg == 272629804   \* 0x1040002C
DisplayTransferTriggerReg == 272632856   \* 0x10400C18

TransferBufferSize == 1024

PollLimit == 100

\* CTRegisterWrite size classes
SIZE_8 == 209
SIZE_16 == 210
SIZE_32 == 211
SIZE_64 == 212

\* what the hardware may answer when the command list address register is
\* read back (the list address divided by 8): a main RAM address, none, or
\* an address of no known region
HwAddrValues == {FCRAM_PADDR \div 8, 0, 1}

HwSizeValues == {16}

\* lines 391-394: aptMainLoop() returns false, or START is down
LeaveMainLoop ==
    /\ pc = "main_loop"
    /\ pc' = "exit"
    /\ UNCHANGED <<file, input, stream, command_list, regs_base, pad_rounds, pass,
                   idx, remaining, addr, count, events, exit_code, short_read, call_base, probe, result>>

\* lines 408-409: the indices 0x18E0 / 4 and 0x18E8 / 4 into gpu_regs
CommandListSizeIndex == 1592
CommandListAddrIndex == 1594

\* lines 402-406: entry i of gpu_regs, value-initialized and then read from
\* the file at inp
GpuRegs(inp, i) ==
    IF i < Avail(seekg(inp, iso.gpu_registers), iso.gpu_registers_size)
    THEN DataWord(iso.gpu_registers \div 4 + i) ELSE ZeroWord

\* &gpu_regs[i] handed to GSPGPU_WriteHWRegs: an index past the end of the
\* vector reads whatever lies there (beyond)
GpuRegWord(inp, i, beyond) ==
    IF i < iso.gpu_registers_size THEN GpuRegs(inp, i) ELSE beyond

WriteHWRegsEvent(reg, n, w, p, e) ==
    [op |-> "GSPGPU_WriteHWRegs", addr |-> HWRegOffset(reg), size |-> n,
     pass |-> p, elem |-> e, data |-> w]

\* lines 396-409.  Reading past the end of gpu_regs is undefined: the
\* service is handed stale memory, or the access faults.
FrameSetup ==
    /\ pc = "main_loop"
    /\ pass < MaxPasses
    /\ pass' = pass + 1
    /\ input' = AfterRead(seekg(input, iso.gpu_registers), iso.gpu_registers_size)
    /\ \E beyond \in Uninit, fault \in BOOLEAN :
         LET size_word == GpuRegWord(input, CommandListSizeIndex, beyond)
             addr_word == GpuRegWord(input, CommandListAddrIndex, beyond)
             submitted == Append(events, [op |-> "GX_ProcessCommandList", addr |-> 0,
                                          size |-> Len(command_list) * 4,
                                          pass |-> pass + 1, elem |-> 0])
             size_written == Append(submitted,
                 WriteHWRegsEvent(CommandListSizeReg, 4, size_word, pass + 1, 0))
         IN /\ CommandListAddrIndex < iso.gpu_registers_size
                  => (beyond = ZeroWord /\ ~fault)
            /\ fault => beyond = ZeroWord
            /\ IF fault /\ CommandListSizeIndex >= iso.gpu_registers_size
               THEN /\ events' = submitted
                    /\ pc' = "crashed"
                    /\ idx' = idx
               ELSE IF fault
               THEN /\ events' = size_written
                    /\ pc' = "crashed"
                    /\ idx' = idx
               ELSE /\ events' = Append(size_written,
                         WriteHWRegsEvent(CommandListAddrReg, 4, addr_word, pass + 1, 0))
                    /\ pc' = "element"
                    /\ idx' = 1
    /\ UNCHANGED <<file, stream, command_list, regs_base, pad_rounds,
                   remaining, addr, count, exit_code, short_read, call_base, probe, result>>

AtElement == pc = "element" /\ idx <= Len(stream)

stream_element == stream[idx]

NextElement ==
    /\ pc' = "element"
    /\ idx' = idx + 1

\* line 411: the range-for is over
EndOfStream ==
    /\ pc = "element"
    /\ idx > Len(stream)
    /\ pc' = "main_loop"
    /\ UNCHANGED <<file, input, stream, command_list, regs_base, pad_rounds, pass,
                   idx, remaining, addr, count, events, exit_code, short_read, call_base, probe, result>>

\* lines 412-414: START is down at the per-element check
CancelAtElement ==
    /\ AtElement
    /\ pc' = "exit"
    /\ UNCHANGED <<file, input, stream, command_list, regs_base, pad_rounds, pass,
                   idx, remaining, addr, count, events, exit_code, short_read, call_base, probe, result>>

\* lines 417-421
FrameMarkerOp ==
    /\ AtElement
    /\ stream_element.type = FrameMarker
    /\ events' = events \o <<Event("gfxSwapBuffersGpu", 0, 0),
                             Event("gspWaitForVBlank", 0, 0)>>
    /\ NextElement
    /\ UNCHANGED <<file, input, stream, command_list, regs_base, pad_rounds, pass,
                   remaining, addr, count, exit_code, short_read, call_base, probe, result>>

InVRAM(physical_address) ==
    physical_address >= VRAM_PADDR /\ physical_address < VRAM_PADDR_END

\* std::terminate() inside PhysicalToVirtualAddress, after its diagnostic
TerminateUnknownAddress(a) ==
    /\ events' = events \o <<Event("print_unknown_physical_address", a, 0),
                             Event("NetworkExit", 0, 0)>>
    /\ pc' = "terminated"

\* lines 424-439: a load into VRAM begins
BeginVramLoad ==
    /\ AtElement
    /\ stream_element.type = MemoryLoad
    /\ InVRAM(stream_element.physical_address)
    /\ input' = seekg(input, stream_element.file_offset)
    /\ Emit("linearAlloc", 0, TransferBufferSize)
    /\ remaining' = stream_element.size
    /\ addr' = stream_element.physical_address
    /\ pc' = "dma"
    /\ UNCHANGED <<file, stream, command_list, regs_base, pad_rounds, pass,
                   idx, count, exit_code, short_read, call_base, probe, result>>

\* ChunkSize with every chunk a whole buffer
ChunkSize_Whole(left) == TransferBufferSize

\* line 444: the size of the chunk
ChunkSize(left) == Min(TransferBufferSize, left)

\* line 452: the chunk was the last
LastChunk(left) == left <= TransferBufferSize

\* DmaChunk without the gspWaitForDMA of line 450
DmaChunk_NoWait ==
    /\ pc = "dma"
    /\ LET size == ChunkSize(remaining)
           dest == PhysicalToVirtualAddress(addr)
       IN IF ~dest.returns
          THEN /\ TerminateUnknownAddress(addr)
               /\ UNCHANGED <<input, remaining, addr, idx>>
          ELSE /\ input' = AfterReadBytes(input, size)
               /\ IF LastChunk(remaining)
                  THEN /\ events' = events \o
                            <<Event("input.read", 0, size),
                              Event("GSPGPU_FlushDataCache", 0, size),
                              Event("GX_RequestDma", dest.value, size),
                              Event("linearFree", 0, 0)>>
                       /\ NextElement
                       /\ UNCHANGED <<remaining, addr>>
                  ELSE /\ events' = events \o
                            <<Event("input.read", 0, size),
                              Event("GSPGPU_FlushDataCache", 0, size),
                              Event("GX_RequestDma", dest.value, size)>>
                       /\ remaining' = remaining - TransferBufferSize
                       /\ addr' = addr + TransferBufferSize
                       /\ UNCHANGED <<pc, idx>>
    /\ UNCHANGED <<file, stream, command_list, regs_base, pad_rounds, pass,
                   count, exit_code, short_read, call_base, probe, result>>

\* lines 444-453: one iteration of the DMA loop, and line 456 after the last
DmaChunk ==
    /\ pc = "dma"
    /\ LET size == ChunkSize(remaining)
           dest == PhysicalToVirtualAddress(addr)
       IN IF ~dest.returns
          THEN /\ TerminateUnknownAddress(addr)
               /\ UNCHANGED <<input, remaining, addr, idx>>
          ELSE /\ input' = AfterReadBytes(input, size)
               /\ IF LastChunk(remaining)
                  THEN /\ events' = events \o
                            <<Event("input.read", 0, size),
                              Event("GSPGPU_FlushDataCache", 0, size),
                              Event("GX_RequestDma", dest.value, size),
                              Event("gspWaitForDMA", 0, 0),
                              Event("linearFree", 0, 0)>>
                       /\ NextElement
                       /\ UNCHANGED <<remaining, addr>>
                  ELSE /\ events' = events \o
                            <<Event("input.read", 0, size),
                              Event("GSPGPU_FlushDataCache", 0, size),
                              Event("GX_RequestDma", dest.value, size),
                              Event("gspWaitForDMA", 0, 0)>>
                       /\ remaining' = remaining - TransferBufferSize
                       /\ addr' = addr + TransferBufferSize
                       /\ UNCHANGED <<pc, idx>>
    /\ UNCHANGED <<file, stream, command_list, regs_base, pad_rounds, pass,
                   count, exit_code, short_read, call_base, probe, result>>

\* lines 424 and 458-471: a load to an address outside VRAM
DirectLoad ==
    /\ AtElement
    /\ stream_element.type = MemoryLoad
    /\ ~InVRAM(stream_element.physical_address)
    /\ LET dest == PhysicalToVirtualAddress(stream_element.physical_address)
           at == seekg(input, stream_element.file_offset)
       IN IF ~dest.returns
          THEN /\ TerminateUnknownAddress(stream_element.physical_address)
               /\ input' = at
               /\ idx' = idx
          ELSE IF dest.value = 0
          THEN /\ Emit("print_turned_out_unknown", 0, 0)
               /\ input' = at
               /\ NextElement
          ELSE /\ events' = events \o
                    <<Event("input.read", dest.value, stream_element.size),
                      Event("GSPGPU_FlushDataCache", dest.value, stream_element.size)>>
               /\ input' = AfterReadBytes(at, stream_element.size)
               /\ NextElement
    /\ UNCHANGED <<file, stream, command_list, regs_base, pad_rounds, pass,
                   remaining, addr, count, exit_code, short_read, call_base, probe, result>>

\* lines 477-485: the size classification
ClassSize(size_class) ==
    IF size_class = SIZE_8 THEN 1
    ELSE IF size_class = SIZE_16 THEN 2
    ELSE IF size_class = SIZE_32 THEN 4
    ELSE IF size_class = SIZE_64 THEN 8
    ELSE 0

\* lines 533-536: the registers whose write triggers an operation
TriggersOperation(physical_address) ==
    physical_address \in {MemoryFillControl1Reg, MemoryFillControl2Reg,
                          DisplayTransferTriggerReg, CommandListTriggerReg}

\* what may lie behind the 4 bytes of the variable data
UninitUpper == {0, 14600926}

\* lines 474-540, up to the polling loop
RegisterWriteOp ==
    /\ AtElement
    /\ stream_element.type = RegisterWrite
    /\ LET size == ClassSize(stream_element.size)
           reg == stream_element.physical_address
           data == stream_element.value.lo
           After(evs) ==
               IF TriggersOperation(reg)
               THEN /\ events' = Append(evs, Event("print_waiting", reg, 0))
                    /\ pc' = "poll"
                    /\ count' = 0
                    /\ idx' = idx
               ELSE /\ events' = evs
                    /\ NextElement
                    /\ count' = count
       IN IF size = 0
          THEN \* debug_strings.at(0) throws std::out_of_range, uncaught
               /\ Emit("throw_out_of_range", reg, 0)
               /\ pc' = "terminated"
               /\ UNCHANGED <<idx, count>>
          ELSE IF reg = CommandListTriggerReg
          THEN \E hw_addr \in HwAddrValues, hw_size \in HwSizeValues :
                 LET dest == PhysicalToVirtualAddress(hw_addr * 8)
                     readback == events \o
                         <<Event("print_writing", reg, size),
                           Event("GSPGPU_ReadHWRegs", HWRegOffset(CommandListSizeReg), 4),
                           Event("GSPGPU_ReadHWRegs", HWRegOffset(CommandListAddrReg), 4)>>
                 IN IF ~dest.returns
                    THEN /\ events' = readback \o
                              <<Event("print_unknown_physical_address", hw_addr * 8, 0),
                                Event("NetworkExit", 0, 0)>>
                         /\ pc' = "terminated"
                         /\ UNCHANGED <<idx, count>>
                    ELSE After(Append(readback,
                              [op |-> "GX_ProcessCommandList", addr |-> dest.value,
                               size |-> hw_size, pass |-> pass, elem |-> idx,
                               flags |-> stream_element.value]))
          ELSE \E upper \in UninitUpper :
                 /\ size <= 4 => upper = 0
                 /\ After(events \o
                      <<Event("print_writing", reg, size),
                        [op |-> "GSPGPU_WriteHWRegs", addr |-> HWRegOffset(reg),
                         size |-> size, pass |-> pass, elem |-> idx,
                         data |-> [lo |-> data, hi |-> upper]]>>)
    /\ UNCHANGED <<file, input, stream, command_list, regs_base, pad_rounds, pass,
                   remaining, addr, exit_code, short_read, call_base, probe, result>>

\* lines 541-547: one iteration of the polling loop.  Its read-backs and
\* sleeps are counted by count and not entered in events; count is a local
\* of the block and is gone when the loop is left.
PollStep ==
    /\ pc = "poll"
    /\ \E val \in {0, 1} :
         IF val % 2 = 1
         THEN /\ NextElement
              /\ count' = 0
         ELSE IF count < PollLimit
         THEN /\ count' = count + 1
              /\ UNCHANGED <<pc, idx>>
         ELSE /\ NextElement
              /\ count' = 0
    /\ UNCHANGED <<file, input, stream, command_list, regs_base, pad_rounds, pass,
                   remaining, addr, events, exit_code, short_read, call_base, probe, result>>

\* UnknownElement leaving only the switch, so that the loop goes on
UnknownElement_Skip ==
    /\ AtElement
    /\ stream_element.type \notin {FrameMarker, MemoryLoad, RegisterWrite}
    /\ Emit("print_unknown_element_type", stream_element.type, 0)
    /\ NextElement
    /\ UNCHANGED <<file, input, stream, command_list, regs_base, pad_rounds, pass,
                   remaining, addr, count, exit_code, short_read, call_base, probe, result>>

\* lines 551-553: an element of no known type
UnknownElement ==
    /\ AtElement
    /\ stream_element.type \notin {FrameMarker, MemoryLoad, RegisterWrite}
    /\ Emit("print_unknown_element_type", stream_element.type, 0)
    /\ pc' = "exit"
    /\ UNCHANGED <<file, input, stream, command_list, regs_base, pad_rounds, pass,
                   idx, remaining, addr, count, exit_code, short_read, call_base, probe, result>>

\* lines 559-564
ExitLabel ==
    /\ pc = "exit"
    /\ events' = events \o <<Event("gfxExit", 0, 0), Event("NetworkExit", 0, 0)>>
    /\ pc' = "done"
    /\ exit_code' = 0
    /\ UNCHANGED <<file, input, stream, command_list, regs_base, pad_rounds, pass,
                   idx, remaining, addr, count, short_read, call_base, probe, result>>

-----------------------------------------------------------------------------
(* Trace files *)

MkHeader(ss, da, gp, gs, gf, vp, vs, vf, pr, gr) ==
    [stream_size |-> ss,
     initial_state_offsets |->
       [default_attributes |-> 0,
        default_attributes_size |-> da,
        gs_program_binary |-> 4 * da,
        gs_program_binary_size |-> gp,
        gs_swizzle_data |-> 4 * (da + gp),
        gs_swizzle_data_size |-> gs,
        gs_float_uniforms |-> 4 * (da + gp + gs),
        gs_float_uniforms_size |-> gf,
        vs_program_binary |-> 4 * (da + gp + gs + gf),
        vs_program_binary_size |-> vp,
        vs_swizzle_data |-> 4 * (da + gp + gs + gf + vp),
        vs_swizzle_data_size |-> vs,
        vs_float_uniforms |-> 4 * (da + gp + gs + gf + vp + vs),
        vs_float_uniforms_size |-> vf,
        pica_registers |-> 4 * (da + gp + gs + gf + vp + vs + vf),
        pica_registers_size |-> pr,
        gpu_registers |-> 4 * (da + gp + gs + gf + vp + vs + vf + pr),
        gpu_registers_size |-> gr]]

\* the bytes of the initial-state areas of header h
StateBytes(h) ==
    h.initial_state_offsets.gpu_registers + 4 * h.initial_state_offsets.gpu_registers_size

\* the bytes of h's initial-state areas that the command list is built from
BuildBytes(h) == h.initial_state_offsets.gpu_registers

LoadBytes == MaxLoadChunks * TransferBufferSize

\* a file that opens, with a good header and len bytes after it
MkFile(h, records, len) ==
    [exists |-> TRUE, has_header |-> TRUE, magic_ok |-> TRUE, version_ok |-> TRUE,
     header |-> h, stream_records |-> records, data_len |-> len]

WholeFile(h, records) == MkFile(h, records, StateBytes(h) + LoadBytes)

\* a snapshot of the GPU registers that holds both registers FrameSetup primes
GpuRegsFull == CommandListAddrIndex + 1

NoState(ss, gr) == MkHeader(ss, 0, 0, 0, 0, 0, 0, 0, 0, gr)

FrameMarkerElement ==
    [type |-> FrameMarker, file_offset |-> 0, physical_address |-> 0, size |-> 0,
     value |-> [hi |-> 0, lo |-> 0]]

LoadElement(pa, n) ==
    [type |-> MemoryLoad, file_offset |-> 4 * GpuRegsFull, physical_address |-> pa,
     size |-> n, value |-> [hi |-> 0, lo |-> 0]]

WriteElement(pa, class, hi, lo) ==
    [type |-> RegisterWrite, file_offset |-> 0, physical_address |-> pa,
     size |-> class, value |-> [hi |-> hi, lo |-> lo]]

OtherElement(t) ==
    [type |-> t, file_offset |-> 0, physical_address |-> 0, size |-> 0,
     value |-> [hi |-> 0, lo |-> 0]]

\* files that fail to open, are shorter than a header, have a wrong magic
\* word or another version
HeaderFiles ==
    {[WholeFile(NoState(1, GpuRegsFull), <<FrameMarkerElement>>)
        EXCEPT !.exists = e, !.has_header = h, !.magic_ok = m, !.version_ok = v] :
       e \in BOOLEAN, h \in BOOLEAN, m \in BOOLEAN, v \in BOOLEAN}

\* sizes of up to MaxAttrSlots whole slots, and one that is no whole slot
AttrSizes == {4 * k : k \in 0..MaxAttrSlots} \cup {5}
BlobSizes == 0..MaxBlobWords
\* sizes of up to MaxUniformGroups whole groups, and two that are none
UniformSizes == {4 * k : k \in 0..MaxUniformGroups} \cup {1, 7}
PicaSizes == {0, 65, 66}

\* whole files whose initial state varies in the default attributes, one
\* shader stage and the register snapshot, or in whether each area is empty
BuildHeaders ==
    {MkHeader(1, da, gp, gs, gf, 0, 0, 0, pr, GpuRegsFull) :
        da \in AttrSizes, gp \in BlobSizes, gs \in BlobSizes, gf \in UniformSizes,
        pr \in PicaSizes}
    \cup
    {MkHeader(1, da, 0, 0, 0, vp, vs, vf, pr, GpuRegsFull) :
        da \in AttrSizes, vp \in BlobSizes, vs \in BlobSizes, vf \in UniformSizes,
        pr \in PicaSizes}
    \cup
    {MkHeader(1, da, gp, gs, gf, vp, vs, vf, pr, GpuRegsFull) :
        da \in {0, 4}, gp \in {0, 3}, gs \in {0, 1}, gf \in {0, 8},
        vp \in {0, 1}, vs \in {0, 3}, vf \in {0, 12}, pr \in {0, 65}}

BuildFiles == {WholeFile(h, <<FrameMarkerElement>>) : h \in BuildHeaders}

\* whole files with a register snapshot around the size of the mask table
ReplayFiles ==
    {WholeFile(MkHeader(1, 0, 0, 0, 0, 0, 0, 0, pr, GpuRegsFull), <<FrameMarkerElement>>) :
        pr \in (MaskTableSize - 1)..(MaskTableSize + 1)}

\* files cut short inside the stream or inside the initial-state areas
TruncatedHeaders ==
    {MkHeader(1, 8, 2, 0, 12, 0, 0, 0, 66, GpuRegsFull),
     MkHeader(1, 4, 0, 0, 0, 0, 1, 8, 0, GpuRegsFull)}

TruncatedLengths(h) == {4 * k : k \in 0..20} \cup {BuildBytes(h) - 4, BuildBytes(h)}

TruncatedFiles ==
    UNION {{MkFile(h, records, len) :
                records \in {<<>>, <<FrameMarkerElement>>}, len \in TruncatedLengths(h)} :
           h \in TruncatedHeaders}

\* the elements streams are made of
CoreElements ==
    {FrameMarkerElement,
     LoadElement(VRAM_PADDR, TransferBufferSize + 476),
     LoadElement(MPCORE_RAM_PADDR, 16),
     LoadElement(0, 16),
     WriteElement(CommandListSizeReg, SIZE_32, 0, 16),
     OtherElement(228)}

RECURSIVE SeqsUpTo(_, _)
SeqsUpTo(S, n) ==
    IF n = 0 THEN {<<>>}
    ELSE LET shorter == SeqsUpTo(S, n - 1)
         IN shorter \cup {Append(q, e) : q \in shorter, e \in S}

PlaybackFiles ==
    {WholeFile(NoState(Len(q), GpuRegsFull), q) : q \in SeqsUpTo(CoreElements, MaxStreamLen)}

LoadSizes ==
    {k * TransferBufferSize + d : k \in 0..(MaxLoadChunks - 1), d \in {0, 1, 300, 476, 1023}}
    \cup {MaxLoadChunks * TransferBufferSize}

VramLoadAddresses ==
    {VRAM_PADDR, VRAM_PADDR + 4096, VRAM_PADDR_END - 2 * TransferBufferSize,
     VRAM_PADDR_END - TransferBufferSize - 512, VRAM_PADDR_END - 4}

DirectLoadAddresses ==
    {0, 4, IO_AREA_PADDR, MPCORE_RAM_PADDR, MPCORE_RAM_PADDR_END - 4, DSP_RAM_PADDR,
     AXI_WRAM_PADDR, FCRAM_PADDR, FCRAM_PADDR_END - 16, FCRAM_PADDR_END}

WrittenRegisters ==
    {MemoryFillControl1Reg, MemoryFillControl2Reg, DisplayTransferTriggerReg,
     CommandListTriggerReg, CommandListSizeReg, CommandListAddrReg}

\* one element in all its variety, followed by a frame marker
WideElements ==
    {LoadElement(pa, n) : pa \in VramLoadAddresses, n \in LoadSizes}
    \cup {LoadElement(pa, n) : pa \in DirectLoadAddresses, n \in {0, 16}}
    \cup {WriteElement(pa, class, hi, lo) :
            pa \in WrittenRegisters, class \in {SIZE_8, SIZE_16, SIZE_32, SIZE_64, 0},
            hi \in {0, 7}, lo \in {16909060}}
    \cup {OtherElement(t) : t \in {0, 1, 228}}

ElementFiles ==
    {WholeFile(NoState(2, GpuRegsFull), <<e, FrameMarkerElement>>) : e \in WideElements}

\* files whose snapshot of the GPU registers is empty or too short
SnapshotFiles ==
    {WholeFile(NoState(Len(q), gr), q) :
        q \in {<<>>, <<FrameMarkerElement>>},
        gr \in {0, CommandListSizeIndex, CommandListSizeIndex + 1, CommandListAddrIndex}}

TraceFiles ==
    HeaderFiles \cup BuildFiles \cup ReplayFiles \cup TruncatedFiles
    \cup PlaybackFiles \cup ElementFiles \cup SnapshotFiles

-----------------------------------------------------------------------------
(* The program *)

Init ==
    /\ file \in TraceFiles
    /\ pc = "open"
    /\ input = [pos |-> 0, fail |-> FALSE]
    /\ stream = <<>>
    /\ command_list = <<>>
    /\ regs_base = 0
    /\ pad_rounds = 0
    /\ pass = 0
    /\ idx = 0
    /\ remaining = 0
    /\ addr = 0
    /\ count = 0
    /\ events = <<>>
    /\ exit_code = -1
    /\ short_read = "none"
    /\ call_base = 0
    /\ probe = 0
    /\ result = 0

Next ==
    \/ OpenInput
    \/ ReadHeader
    \/ CheckMagic
    \/ CheckVersion
    \/ ReadStream
    \/ DefaultAttributes
    \/ \E k \in 1..6 : SubmitCall(k)
    \/ PicaRegisters
    \/ Pad
    \/ FlushCommandList
    \/ LeaveMainLoop
    \/ FrameSetup
    \/ EndOfStream
    \/ CancelAtElement
    \/ FrameMarkerOp
    \/ BeginVramLoad
    \/ DmaChunk
    \/ DirectLoad
    \/ RegisterWriteOp
    \/ PollStep
    \/ UnknownElement
    \/ ExitLabel

Spec == Init /\ [][Next]_vars

-----------------------------------------------------------------------------
(* PhysicalToVirtualAddress and the 4-to-3 packing on their own *)

\* the variables of main() at rest
AtRest ==
    /\ file = [WholeFile(NoState(0, 0), <<>>) EXCEPT !.exists = FALSE]
    /\ input = [pos |-> 0, fail |-> FALSE]
    /\ stream = <<>>
    /\ command_list = <<>>
    /\ regs_base = 0
    /\ pad_rounds = 0
    /\ pass = 0
    /\ idx = 0
    /\ remaining = 0
    /\ addr = 0
    /\ count = 0
    /\ events = <<>>
    /\ exit_code = -1
    /\ short_read = "none"
    /\ call_base = 0

StaysAtRest ==
    UNCHANGED <<file, input, stream, command_list, regs_base, pad_rounds, pass,
                idx, remaining, addr, count, events, exit_code, short_read, call_base>>

\* the first and the last address of every region of lines 28-58
RegionEdges ==
    {IO_AREA_PADDR, IO_AREA_PADDR_END, MPCORE_RAM_PADDR, MPCORE_RAM_PADDR_END,
     VRAM_PADDR, VRAM_PADDR_END, DSP_RAM_PADDR, DSP_RAM_PADDR_END,
     AXI_WRAM_PADDR, AXI_WRAM_PADDR_END, FCRAM_PADDR, FCRAM_PADDR_END}

\* address 0 and the addresses up to AddrSpread away from 0 and from an edge
ProbeAddresses ==
    (0..AddrSpread)
    \cup UNION {{e - d, e + d} : e \in RegionEdges, d \in 0..AddrSpread}

InitTranslate ==
    /\ AtRest
    /\ pc = "translate"
    /\ probe \in ProbeAddresses
    /\ result = 0

Translate ==
    /\ pc = "translate"
    /\ result' = PhysicalToVirtualAddress(probe)
    /\ pc' = "translated"
    /\ UNCHANGED probe
    /\ StaysAtRest

NextTranslate == Translate

SpecTranslate == InitTranslate /\ [][NextTranslate]_vars

\* 32-bit samples whose top and low bytes tell them apart; the first is a
\* float24 the way the trace stores it, with its top byte 0
Sample(k) == Bytes(((k - 1) * 127) % 256, 16 + k, 32 + k, 48 + k)

Samples == {Sample(k) : k \in 1..NumSamples}

InitPack ==
    /\ AtRest
    /\ pc = "pack"
    /\ probe \in [0..3 -> Samples]
    /\ result = 0

\* lines 321-327 (and 345-347): the three words a group of four becomes
Pack ==
    /\ pc = "pack"
    /\ result' = <<PackWord0(probe), PackWord1(probe), PackWord2(probe)>>
    /\ pc' = "packed"
    /\ UNCHANGED probe
    /\ StaysAtRest

NextPack == Pack

SpecPack == InitPack /\ [][NextPack]_vars

-----------------------------------------------------------------------------
(* The claims *)

\* the padding loop has been left: the list has been flushed for playback
BuildFinished ==
    \/ pc \in {"main_loop", "element", "dma", "poll", "exit", "terminated", "crashed"}
    \/ pc = "done" /\ exit_code = 0

\* every size field the command list is built from is 0
AllSizesZero ==
    /\ iso.default_attributes_size = 0
    /\ iso.gs_program_binary_size = 0
    /\ iso.gs_swizzle_data_size = 0
    /\ iso.gs_float_uniforms_size = 0
    /\ iso.vs_program_binary_size = 0
    /\ iso.vs_swizzle_data_size = 0
    /\ iso.vs_float_uniforms_size = 0
    /\ iso.pica_registers_size = 0

\* C1: when the initial-state build has finished, the length of the command
\* list in words is a multiple of 4, whatever the size fields of the header
\* are, and the list is empty when every size field is 0.
C1_BuiltListIsMultipleOf4 ==
    BuildFinished =>
        /\ Len(command_list) % 4 = 0
        /\ AllSizesZero => command_list = <<>>

\* C1, its case: a build that left a list of 4n + 2 words, padded once
C1_PaddedOnce ==
    /\ BuildFinished
    /\ pad_rounds = 1
    /\ Len(command_list) > 0

\* C2: the padding step terminates for every list the build steps produce:
\* appending two words finitely many times reaches a multiple of 4 words.
\* (Each round appends two words, so k rounds reach Len + 2k.)
C2_PaddingReachesMultipleOf4 ==
    pc = "pad" =>
        \E k \in 0..(MaxPadRounds + 1) : (Len(command_list) + 2 * k) % 4 = 0

\* element j of the stream has a type the switch of line 416 has no case for
UnknownType(j) == stream[j].type \notin {FrameMarker, MemoryLoad, RegisterWrite}

\* what the halting itself calls: the diagnostic of line 552 and the exit label
HaltingCalls == {"print_unknown_element_type", "gfxExit", "NetworkExit"}

\* main() left the range-for at element idx, through goto exit
HaltedAtElement ==
    /\ pc \in {"exit", "done"}
    /\ pass >= 1
    /\ idx \in 1..Len(stream)

\* C3: stream iteration halts at an element of unrecognized type: no later
\* element is processed and no further pass is started; and when cancellation
\* is observed at the per-element checkpoint, that element and all later
\* ones are not processed.
C3_HaltsAtUnknownTypeAndOnCancel ==
    /\ \A j \in 1..Len(stream) :
          UnknownType(j) =>
              /\ pass <= 1
              /\ idx <= j
              /\ \A n \in 1..Len(events) :
                    /\ events[n].elem <= j
                    /\ events[n].elem = j => events[n].op \in HaltingCalls
    /\ HaltedAtElement =>
          \A n \in 1..Len(events) :
              (events[n].pass = pass /\ events[n].elem >= idx) =>
                  /\ events[n].op \in HaltingCalls
                  /\ events[n].op = "print_unknown_element_type" => UnknownType(idx)

\* C3, its case: main() has returned after an element of unrecognized type
\* that another element follows
C3_HaltedBeforeLaterElement ==
    /\ pc = "done"
    /\ HaltedAtElement
    /\ UnknownType(idx)
    /\ idx < Len(stream)
    /\ \E n \in 1..Len(events) : events[n].op = "print_unknown_element_type"

\* C4: an element whose physical address cannot be translated aborts only
\* that element: after the diagnostic the element is skipped and iteration
\* continues; the process is not ended.
C4_UnknownAddressSkipsElement ==
    (\E n \in 1..Len(events) : events[n].op = "print_unknown_physical_address")
        => pc # "terminated"

\* the GX_RequestDma calls made for element j in pass p, in call order
DmaCalls(p, j) ==
    LET ForElement(e) == e.op = "GX_RequestDma" /\ e.pass = p /\ e.elem = j
    IN SelectSeq(events, ForElement)

RECURSIVE SumOfSizes(_)
SumOfSizes(calls) ==
    IF calls = <<>> THEN 0 ELSE calls[1].size + SumOfSizes(Tail(calls))

\* the loads into VRAM that have begun: (pass, element) with its linearAlloc
VramLoadsBegun ==
    {pj \in (1..pass) \X (1..Len(stream)) :
        /\ stream[pj[2]].type = MemoryLoad
        /\ InVRAM(stream[pj[2]].physical_address)
        /\ \E n \in 1..Len(events) :
              /\ events[n].op = "linearAlloc"
              /\ events[n].pass = pj[1]
              /\ events[n].elem = pj[2]}

\* main() is no longer inside the DMA loop of element j in pass p
DmaLoopLeft(p, j) == ~(pc = "dma" /\ pass = p /\ idx = j)

\* the transfers of element j in pass p are what C5 says they are
ChunkedAsClaimed(p, j) ==
    LET calls == DmaCalls(p, j)
    IN /\ Len(calls) >= 1
       /\ \A k \in 1..(Len(calls) - 1) : calls[k].size = 1024
       /\ calls[Len(calls)].size <= 1024
       /\ SumOfSizes(calls) = stream[j].size
       /\ \A k \in 1..Len(calls) :
             LET target == PhysicalToVirtualAddress(
                               stream[j].physical_address + 1024 * (k - 1))
             IN target.returns /\ calls[k].addr = target.value

NumChunks(n) == IF n = 0 THEN 1 ELSE (n + 1023) \div 1024

\* every chunk of element j starts inside video memory
ChunksStartInVRAM(j) ==
    InVRAM(stream[j].physical_address + 1024 * (NumChunks(stream[j].size) - 1))

DeclaredRegions ==
    {[from |-> VRAM_PADDR, to |-> VRAM_PADDR_END, base |-> VRAM_VADDR],
     [from |-> FCRAM_PADDR, to |-> FCRAM_PADDR_END, base |-> FCRAMStartVAddr],
     [from |-> DSP_RAM_PADDR, to |-> DSP_RAM_PADDR_END, base |-> DSP_RAM_VADDR],
     [from |-> IO_AREA_PADDR, to |-> IO_AREA_PADDR_END, base |-> IO_AREA_VADDR]}

InRegion(a, r) == a >= r.from /\ a < r.to

\* C6: for every physical address inside a declared region (video memory,
\* main RAM, DSP memory, IO register window) translate returns the address
\* plus that region's constant offset; for every non-zero address outside
\* all of them it reports an error and returns no address to its caller.
C6_AffineInsideErrorOutside ==
    pc = "translated" =>
        /\ \A r \in DeclaredRegions :
              InRegion(probe, r) =>
                  /\ result.returns
                  /\ ~result.diagnostic
                  /\ result.value - probe = r.base - r.from
        /\ (probe # 0 /\ \A r \in DeclaredRegions : ~InRegion(probe, r)) =>
              /\ ~result.returns
              /\ result.diagnostic

\* C6, its case: the address just past video memory has been translated
C6_PastVideoMemory ==
    /\ pc = "translated"
    /\ probe = VRAM_PADDR_END
    /\ ~result.returns

\* C7: translate(0) returns the sentinel 0, and no physical address inside
\* a declared region translates to 0.
C7_SentinelIsDistinct ==
    pc = "translated" =>
        /\ probe = 0 => (result.returns /\ result.value = 0)
        /\ \A r \in DeclaredRegions :
              InRegion(probe, r) => (result.returns /\ result.value # 0)

\* C7, its case: the first address of video memory has been translated
C7_FirstOfVideoMemory ==
    /\ pc = "translated"
    /\ probe = VRAM_PADDR
    /\ result.returns

\* the words the register replay appended to the command list
ReplayedWords == SubSeq(command_list, regs_base + 1, Len(command_list))

\* the indices below the replay's limit whose mask entry is non-zero, ascending
RECURSIVE StatefulIndices(_)
StatefulIndices(limit) ==
    IF limit = 0 THEN <<>>
    ELSE IF pica_register_state_mask(limit - 1) # 0
         THEN Append(StatefulIndices(limit - 1), limit - 1)
         ELSE StatefulIndices(limit - 1)

\* the replay is over and padding has yet to begin
ReplayDone == pc = "pad" /\ pad_rounds = 0

\* C8: the register snapshot replay, for the indices 0 up to
\* min(0x300, pica_registers_size), emits a pair (value word, header word =
\* index | mask << 16) for exactly the indices whose mask entry is non-zero,
\* skips the others, and emits the pairs in strictly ascending index order.
C8_ReplayEmitsStatefulRegistersInOrder ==
    ReplayDone =>
        LET limit == IF iso.pica_registers_size < 768
                     THEN iso.pica_registers_size ELSE 768
            indices == StatefulIndices(limit)
        IN /\ Len(ReplayedWords) = 2 * Len(indices)
           /\ \A k \in 1..Len(indices) :
                 /\ ReplayedWords[2 * k] =
                        BitOr(ToWord(indices[k]),
                              Shl(ToWord(pica_register_state_mask(indices[k])), 16))
                 /\ ~input.fail =>
                        ReplayedWords[2 * k - 1] =
                            DataWord(iso.pica_registers \div 4 + indices[k])

\* C8, its case: a snapshot longer than the mask table has been replayed,
\* after other state had been emitted, or not
C8_WholeTableReplayed ==
    /\ ReplayDone
    /\ iso.pica_registers_size > 768
    /\ Len(ReplayedWords) > 0

\* the unpacking that goes with the packing: sample i of the group out of
\* the three words, the first of which holds the last sample
Unpack(words, i) ==
    CASE i = 3 -> Shr(words[1], 8)
      [] i = 2 -> BitOr(Shl(BitAnd(words[1], Mask8), 16), Shr(words[2], 16))
      [] i = 1 -> BitOr(Shl(BitAnd(words[2], Mask16), 8), Shr(words[3], 24))
      [] i = 0 -> BitAnd(words[3], Mask24)

\* C9 as stated: from the 3 words the packing produces, unpacking reproduces
\* the top 24 bits of each of the 4 samples, only the low 8 bits of each
\* 32-bit sample being discarded.
C9_RoundTripKeepsTop24Bits ==
    pc = "packed" =>
        \A i \in 0..3 : Unpack(result, i) = Shr(probe[i], 8)

\* C9 amended: unpacking reproduces the low 24 bits of each of the 4
\* samples, the top 8 bits of each 32-bit sample being discarded.
C9_RoundTripKeepsLow24Bits ==
    pc = "packed" =>
        \A i \in 0..3 : Unpack(result, i) = BitAnd(probe[i], Mask24)

\* C9, its case: a group has been packed whose samples differ in their top
\* and low bytes
C9_PackedDistinctSamples ==
    /\ pc = "packed"
    /\ probe[0] # probe[1]
    /\ probe[2] # probe[3]
    /\ \E i \in 0..3 : Shr(probe[i], 24) # ZeroWord

\* C10: a short read while decoding the stream records or while building the
\* initial state is fatal: no command list is submitted and the playback
\* loop is not entered.
C10_ShortReadIsFatal ==
    short_read # "none" =>
        /\ pass = 0
        /\ \A n \in 1..Len(events) : events[n].op # "GX_ProcessCommandList"

\* the file cannot be opened, is shorter than a header, or has another
\* magic word
HeaderUnusable == ~file.exists \/ ~file.has_header \/ ~file.magic_ok

\* the calls that touch the hardware: submissions, register writes and DMA
HardwareCalls == {"GX_ProcessCommandList", "GSPGPU_WriteHWRegs", "GX_RequestDma"}

NoHardwareCall == \A n \in 1..Len(events) : events[n].op \notin HardwareCalls

\* main() is past the checks of the header
PastHeaderChecks == pc \notin {"open", "read_header", "check_magic", "check_version"}

\* C11: decoding fails (non-zero exit, and no command-list submission,
\* register write or DMA ever issued) exactly when the file cannot be opened,
\* is shorter than the header, or has a wrong magic word; a version mismatch
\* alone only produces a diagnostic, and decoding and playback proceed.
C11_FailsExactlyOnUnusableHeader ==
    /\ exit_code = 1 => HeaderUnusable
    /\ HeaderUnusable =>
          /\ NoHardwareCall
          /\ pc \in {"open", "read_header", "check_magic", "done"}
          /\ pc = "done" => exit_code = 1
    /\ (~HeaderUnusable /\ ~file.version_ok /\ PastHeaderChecks) =>
          /\ exit_code # 1
          /\ \E n \in 1..Len(events) : events[n].op = "print_unsupported_version"

\* C11, its case: a file of another version has been decoded and a frame of
\* it played
C11_OtherVersionPlayed ==
    /\ ~file.version_ok
    /\ ~HeaderUnusable
    /\ pass >= 1
    /\ \E n \in 1..Len(events) : events[n].op = "gfxSwapBuffersGpu"

\* C12: every fatal condition (open failure, short header, bad magic,
\* unrecognized stream element type, unknown address) prints a diagnostic
\* and ends the process with a non-zero status; status 0 is returned only
\* when the session ends through user cancellation.
C12_FatalConditionsExitNonZero ==
    /\ (\E n \in 1..Len(events) : events[n].op = "print_unknown_element_type")
          => exit_code # 0
    /\ (pc = "done" /\ HeaderUnusable) => exit_code = 1
    /\ pc = "terminated" =>
          \E n \in 1..Len(events) :
              events[n].op \in {"print_unknown_physical_address", "throw_out_of_range"}

\* C13: after a write to an operation-triggering register the engine
\* performs at most 100 read-backs of it: whenever it is about to read the
\* register back, it has read it back fewer than 100 times.  And it polls
\* after no write to another address.
C13_AtMost100ReadBacks ==
    pc = "poll" =>
        /\ count < 100
        /\ stream_element.type = RegisterWrite
        /\ TriggersOperation(stream_element.physical_address)

\* the calls made in pass p, in call order
PassCalls(p) ==
    LET InPass(e) == e.pass = p
    IN SelectSeq(events, InPass)

\* the calls made for element j in pass p, the halting ones aside
ElementCalls(p, j) ==
    LET ForElement(e) == e.pass = p /\ e.elem = j /\ e.op \notin HaltingCalls
    IN SelectSeq(events, ForElement)

\* the services called, in call order
Ops(calls) == [n \in 1..Len(calls) |-> calls[n].op]

\* the trace of the end-to-end scenario: one FrameMarker, every size field 0
OneFrameMarkerTrace ==
    /\ ~HeaderUnusable
    /\ header.stream_size = 1
    /\ file.stream_records = <<FrameMarkerElement>>
    /\ AllSizesZero
    /\ iso.gpu_registers_size = 0

\* C14: for a trace whose stream is one FrameMarker and whose initial-state
\* size fields are all 0, the built command list has length 0; each pass
\* signals the frame boundary (buffer swap, then vblank wait) exactly once
\* and performs no memory load, DMA or recorded register write; no data
\* outside the (empty) snapshot buffers is accessed, which the entries
\* 0x18E0 / 4 and 0x18E8 / 4 that every pass hands to the register-write
\* service would be; and the frame loop ends cleanly.
C14_OneFrameMarkerPlaysCleanly ==
    OneFrameMarkerTrace =>
        /\ BuildFinished => command_list = <<>>
        /\ \A p \in 1..pass :
              /\ CommandListSizeIndex < iso.gpu_registers_size
              /\ CommandListAddrIndex < iso.gpu_registers_size
              /\ Ops(ElementCalls(p, 1)) \in
                    {<<>>, <<"gfxSwapBuffersGpu", "gspWaitForVBlank">>}
              /\ p < pass => ElementCalls(p, 1) # <<>>
        /\ pc \notin {"crashed", "terminated"}
        /\ pc = "done" => exit_code = 0

\* what StartsElement is true of is called once when an element is processed
StartsElement(e) ==
    \/ e.op \in {"gfxSwapBuffersGpu", "linearAlloc", "print_turned_out_unknown",
                 "print_writing", "throw_out_of_range"}
    \/ e.op = "input.read" /\ e.addr # 0

\* pass p begins with the submission of the initial-state command list and
\* the two register writes, and only then come the calls for the elements
PassBeginsWithSetup(p) ==
    LET calls == PassCalls(p)
    IN /\ Len(calls) >= 1
       /\ calls[1].op = "GX_ProcessCommandList"
       /\ calls[1].size = Len(command_list) * 4
       /\ (pc # "crashed" \/ p < pass) =>
             /\ Len(calls) >= 3
             /\ calls[2].op = "GSPGPU_WriteHWRegs"
             /\ calls[2].addr = HWRegOffset(272636128)
             /\ calls[3].op = "GSPGPU_WriteHWRegs"
             /\ calls[3].addr = HWRegOffset(272636136)
       /\ \A n \in 1..Len(calls) : (calls[n].elem = 0) = (n <= 3)

\* in pass p the elements are processed in index order, each at most once,
\* none skipped; a pass that is over has processed them all
PassInStreamOrder(p) ==
    LET calls == PassCalls(p)
    IN /\ \A m, n \in 1..Len(calls) : m < n => calls[m].elem <= calls[n].elem
       /\ \A j \in 1..Len(stream) :
             /\ Cardinality({n \in 1..Len(calls) :
                    calls[n].elem = j /\ StartsElement(calls[n])}) <= 1
             /\ ElementCalls(p, j) # <<>> =>
                    \A k \in 1..(j - 1) : ElementCalls(p, k) # <<>>
             /\ p < pass => ElementCalls(p, j) # <<>>

\* the two registers are written from entries of the snapshot, which are the
\* file's words, or 0 where the file ends before them
PrimedFromSnapshot(p) ==
    LET calls == PassCalls(p)
        Entry(k) == {DataWord(iso.gpu_registers \div 4 + k), ZeroWord}
    IN Len(calls) >= 3 =>
          /\ CommandListSizeIndex < iso.gpu_registers_size
          /\ CommandListAddrIndex < iso.gpu_registers_size
          /\ calls[2].data \in Entry(CommandListSizeIndex)
          /\ calls[3].data \in Entry(CommandListAddrIndex)

\* C15: in every playback pass the initial-state command list is submitted
\* and the command-list-size and command-list-address registers are primed
\* from the snapshot before the first stream element of the pass is
\* processed; within a pass the elements are processed in stream index
\* order, each at most once, none skipped before the pass halts.
C15_SetupThenElementsInOrder ==
    \A p \in 1..pass :
        /\ PassBeginsWithSetup(p)
        /\ PassInStreamOrder(p)
        /\ PrimedFromSnapshot(p)

\* the RegisterWrite elements that have been processed: (pass, element)
RegisterWritesDone ==
    {pj \in (1..pass) \X (1..Len(stream)) :
        /\ stream[pj[2]].type = RegisterWrite
        /\ ElementCalls(pj[1], pj[2]) # <<>>}

\* how many of the calls are calls of service op
CallsOf(calls, op) == Cardinality({n \in 1..Len(calls) : calls[n].op = op})

\* the calls are what C16 says a write to the trigger register results in
SubmittedInstead(calls, element) ==
    /\ CallsOf(calls, "GSPGPU_WriteHWRegs") = 0
    /\ CallsOf(calls, "GX_ProcessCommandList") = 1
    /\ \E k, m, n \in 1..Len(calls) :
          /\ k < n /\ m < n
          /\ calls[k].op = "GSPGPU_ReadHWRegs"
          /\ calls[k].addr = HWRegOffset(272636128)
          /\ calls[m].op = "GSPGPU_ReadHWRegs"
          /\ calls[m].addr = HWRegOffset(272636136)
          /\ calls[n].op = "GX_ProcessCommandList"
          /\ calls[n].flags = element.value

\* the calls are what C16 says a write to another register results in
WrittenRaw(calls, element) ==
    /\ CallsOf(calls, "GX_ProcessCommandList") = 0
    /\ CallsOf(calls, "GSPGPU_WriteHWRegs") = 1
    /\ \A n \in 1..Len(calls) :
          calls[n].op = "GSPGPU_WriteHWRegs" =>
              calls[n].addr = HWRegOffset(element.physical_address)

\* C16: a recorded RegisterWrite to the trigger register 0x104018F0 never
\* results in a raw register write to it: the size and address registers
\* are read back and exactly one command-buffer submission is issued, whose
\* parameter is the recorded value; every RegisterWrite to another address
\* results in exactly one raw register write and no submission.
C16_TriggerSubmitsOthersWriteRaw ==
    \A pj \in RegisterWritesDone :
        IF stream[pj[2]].physical_address = 272636144
        THEN SubmittedInstead(ElementCalls(pj[1], pj[2]), stream[pj[2]])
        ELSE WrittenRaw(ElementCalls(pj[1], pj[2]), stream[pj[2]])

\* the group of four words that begins first words into the area at offset
FileGroup(offset, first) == [k \in 0..3 |-> DataWord(offset \div 4 + first + k)]

\* the default attributes have just been emitted, and no read fell short
AttributesDone == pc = "gs_program_binary" /\ ~input.fail

\* C17: in the default-vertex-attribute step, for each slot i in
\* 0 .. default_attributes_size / 4 - 1 the builder emits the slot index and
\* the command header, followed by the three packed words of the i-th group
\* of four 32-bit values of the default-attribute area.
C17_EachSlotPacksItsOwnValues ==
    AttributesDone =>
        /\ Len(command_list) = 5 * (iso.default_attributes_size \div 4)
        /\ \A i \in 0..(iso.default_attributes_size \div 4 - 1) :
              LET group == FileGroup(iso.default_attributes, 4 * i)
              IN SubSeq(command_list, 5 * i + 1, 5 * i + 5) =
                    <<ToWord(i), CommandHeader(562, 3),
                      PackWord0(group), PackWord1(group), PackWord2(group)>>

\* the words the latest SubmitInternalMemory call appended
Appended == SubSeq(command_list, call_base + 1, Len(command_list))

\* call k of lines 351-356 has just returned, and no read fell short
CallDone(k) == pc = SubmitCalls[k + 1].at /\ ~input.fail

\* the calls for float uniforms, and those for other data
FloatCalls == {k \in 1..6 : SubmitCalls[k].float}

RawCalls == {k \in 1..6 : ~SubmitCalls[k].float}

\* C18: for float-uniform data of c >= 4 words, SubmitInternalMemory packs
\* every one of the c / 4 groups of 4 source words, writes the payload
\* header once, with length field (c / 4) * 3 - 1, and appends the
\* (c / 4) * 3 packed words that the header declares.
C18_EveryFloatGroupIsPacked ==
    \A k \in FloatCalls :
        (CallDone(k) /\ SubmitCalls[k].size >= 4) =>
            LET c == SubmitCalls[k].size
                groups == c \div 4
                Group(g) == FileGroup(SubmitCalls[k].offset, 4 * g)
            IN /\ Len(Appended) = 2 + 1 + 3 * groups
               /\ Appended[3] = PackWord0(Group(0))
               /\ Appended[4] = CommandHeader(SubmitCalls[k].reg + 1, groups * 3 - 1)
               /\ Appended[5] = PackWord1(Group(0))
               /\ Appended[6] = PackWord2(Group(0))
               /\ \A g \in 1..(groups - 1) :
                     SubSeq(Appended, 3 * g + 4, 3 * g + 6) =
                         <<PackWord0(Group(g)), PackWord1(Group(g)), PackWord2(Group(g))>>

\* C19: for non-float data, SubmitInternalMemory with word count 0 appends
\* nothing; with word count c >= 1 it appends all c source words verbatim
\* and in file order, the first one before a header for register id + 1
\* whose payload-length field is c - 1 and the other c - 1 after it.
C19_RawWordsVerbatim ==
    \A k \in RawCalls :
        CallDone(k) =>
            LET c == SubmitCalls[k].size
                Word(m) == DataWord(SubmitCalls[k].offset \div 4 + m)
            IN IF c = 0 THEN Appended = <<>>
               ELSE /\ Len(Appended) = 2 + c + 1
                    /\ Appended[3] = Word(0)
                    /\ Appended[4] = CommandHeader(SubmitCalls[k].reg + 1, c - 1)
                    /\ \A m \in 1..(c - 1) : Appended[4 + m] = Word(m)

\* C19, its case: a program binary of three or more words has been submitted
C19_SeveralWordsSubmitted ==
    /\ CallDone(1)
    /\ SubmitCalls[1].size >= 3
    /\ Len(Appended) = SubmitCalls[1].size + 3

\* C20: during a video-memory MemoryLoad every chunk follows the order file
\* read into the scratch buffer, cache flush of the buffer, DMA request,
\* DMA-completion wait; between a DMA request and its wait the buffer is
\* neither written (by the next file read) nor freed, and no cancellation
\* check comes between them: the request is never the last call made.
C20_ReadFlushRequestWait ==
    \A n \in 1..Len(events) :
        events[n].op = "GX_RequestDma" =>
            /\ n >= 3
            /\ events[n - 2].op = "input.read"
            /\ events[n - 2].size = events[n].size
            /\ events[n - 2].elem = events[n].elem
            /\ events[n - 1].op = "GSPGPU_FlushDataCache"
            /\ events[n - 1].size = events[n].size
            /\ n < Len(events)
            /\ events[n + 1].op = "gspWaitForDMA"

\* C20, its case: a load of two chunks or more has been made and the
\* scratch buffer freed
C20_SeveralChunksLoaded ==
    \E pj \in VramLoadsBegun :
        /\ Len(DmaCalls(pj[1], pj[2])) >= 2
        /\ \E n \in 1..Len(events) :
              /\ events[n].op = "linearFree"
              /\ events[n].pass = pj[1]
              /\ events[n].elem = pj[2]

\* C21: once a pass has set up the registers (lines 402-409), the two
\* entries of gpu_regs it handed to GSPGPU_WriteHWRegs, 0x18E0 / 4 and
\* 0x18E8 / 4, exist: both are below the length of the vector, whatever the
\* header's gpu_registers_size is.
C21_SetupReadsExistingEntries ==
    pass >= 1 =>
        /\ CommandListSizeIndex < iso.gpu_registers_size
        /\ CommandListAddrIndex < iso.gpu_registers_size

\* byte k of the 32-bit value v, byte 0 the lowest
ByteOf(v, k) == (v \div Pow2(8 * k)) % 256

\* the low n bytes of the 64-bit value whose halves are v.lo and v.hi
LowBytes(v, n) ==
    [k \in 0..(n - 1) |-> IF k < 4 THEN ByteOf(v.lo, k) ELSE ByteOf(v.hi, k - 4)]

\* C22: for every processed RegisterWrite to an address other than the
\* trigger register, nothing is thrown, and the bytes the raw register write
\* is handed, as many as the size class says (1, 2, 4 or 8), are the low
\* bytes of the recorded value: for the 64-bit class all 8 bytes of it.
C22_RawWriteHandsRecordedBytes ==
    \A pj \in RegisterWritesDone :
        stream[pj[2]].physical_address # CommandListTriggerReg =>
            LET calls == ElementCalls(pj[1], pj[2])
            IN /\ CallsOf(calls, "throw_out_of_range") = 0
               /\ \A n \in 1..Len(calls) :
                     calls[n].op = "GSPGPU_WriteHWRegs" =>
                         /\ calls[n].size = ClassSize(stream[pj[2]].size)
                         /\ LowBytes(calls[n].data, calls[n].size)
                              = LowBytes(stream[pj[2]].value, calls[n].size)

\* the addresses of region r whose translation is one of the first
\* AddrSpread + 1 local addresses of region s
AlignedAddresses ==
    {a \in {r.from + (s.base - r.base) + d :
               r \in DeclaredRegions, s \in DeclaredRegions, d \in 0..AddrSpread} :
        a >= 0}

\* the first and the last addresses of every declared region
InnerAddresses ==
    UNION {{r.from + d, r.to - 1 - d} : r \in DeclaredRegions, d \in 0..AddrSpread}

PairProbes == AlignedAddresses \cup InnerAddresses

\* PhysicalToVirtualAddress called on two addresses, one after the other
InitTranslatePair ==
    /\ AtRest
    /\ pc = "translate_pair"
    /\ probe \in PairProbes \X PairProbes
    /\ result = <<0, 0>>

TranslateFirst ==
    /\ pc = "translate_pair"
    /\ result' = <<PhysicalToVirtualAddress(probe[1]), 0>>
    /\ pc' = IF result'[1].returns THEN "translate_second" ELSE "terminated"
    /\ UNCHANGED probe
    /\ StaysAtRest

TranslateSecond ==
    /\ pc = "translate_second"
    /\ result' = <<result[1], PhysicalToVirtualAddress(probe[2])>>
    /\ pc' = IF result'[2].returns THEN "pair_translated" ELSE "terminated"
    /\ UNCHANGED probe
    /\ StaysAtRest

NextTranslatePair == TranslateFirst \/ TranslateSecond

SpecTranslatePair == InitTranslatePair /\ [][NextTranslatePair]_vars

\* a is inside one of the declared regions
Declared(a) == \E r \in DeclaredRegions : InRegion(a, r)

\* C23: two distinct physical addresses, each inside a declared region
\* (video memory, main RAM, DSP memory, IO register window), never
\* translate to the same local address.
C23_TranslationIsInjective ==
    (/\ pc = "pair_translated"
     /\ probe[1] # probe[2]
     /\ Declared(probe[1])
     /\ Declared(probe[2]))
        => result[1].value # result[2].value

=============================================================================
